---- MODULE Spec2Model ----
(***************************************************************************)
(* Speech playback synchronisation engine of the speed reader: the chunk   *)
(* segmenter, the buffered adapters (local Kokoro server, Azure cloud),    *)
(* their playback scheduler and position tracker, the offline adapter of   *)
(* the platform's speech synthesis, and the engine facade.                 *)
(*                                                                         *)
(* One step of a specification is one task of the JavaScript event loop:   *)
(* a call made by the application (speak, stop, ...), a network response,  *)
(* an audio element notification or an animation frame, run to completion  *)
(* together with the promise continuations (microtasks) it makes runnable. *)
(***************************************************************************)
EXTENDS Integers, Sequences, FiniteSets, TLC

VARIABLES
  tts,        \* one buffered adapter (useKokoroTTS / useAzureTTS): refs, state, pending work
  seg,        \* the segmenter iterated over one word stream
  fac,        \* the engine facade (useTTSEngine) with its three adapters seen from outside
  poll,       \* one poll step of the position tracker on one timing table
  off         \* the offline adapter (useTTS) and the platform's speech synthesis queue

vars == <<tts, seg, fac, poll, off>>

(***************************************************************************)
(* Program constants and the bounds of the model                           *)
(***************************************************************************)
MIN_CHUNK_WORDS == 15
MAX_CHUNK_WORDS == 80

\* speak() calls made on one buffered adapter
MaxSpeak == 2
\* audio elements one buffered adapter creates
MaxAudio == 3
\* synthesis requests one buffered adapter issues
MaxReq == 3
\* entries of one timing table / backend notifications for one chunk
MaxTs == 2
\* greatest playback clock polled, in seconds
MaxClock == 1
\* longest word stream handed to the segmenter
MaxWords == 100
\* longest timing table polled on its own
MaxTable == 3
\* utterances of the offline adapter the platform holds at once
MaxUtt == 3
\* greatest word index an adapter reports to the facade
MaxIndex == 1

Min(a, b) == IF a < b THEN a ELSE b

(***************************************************************************)
(* Words.  A word is a sequence of characters.                             *)
(***************************************************************************)
Terminators == {".", "!", "?"}
Closers == {"\"", "'", "U+201D", "U+2019", ")"}

\* /[.!?]["'”’)]*$/.test(word)
isSentenceEnd(word) ==
  \E p \in 1..Len(word) :
     /\ word[p] \in Terminators
     /\ \A q \in (p + 1)..Len(word) : word[q] \in Closers

PlainWord == <<"a">>
StopWord == <<"b", ".">>
QuotedStop == <<"c", "?", ")", "\"">>
InnerDot == <<"d", ".", "e">>

\* The word stream of n words whose sentence ends are at the 1-based positions E.
WordsWith(n, E) ==
  [i \in 1..n |->
     IF i \in E THEN (IF i % 2 = 0 THEN QuotedStop ELSE StopWord)
     ELSE IF i % 7 = 0 THEN InnerDot ELSE PlainWord]

(***************************************************************************)
(* Chunk segmenter                                                         *)
(***************************************************************************)
\* the fallback without its test for a boundary: no boundary in the window gives 0
chunkFallbackUnchecked(lastSentenceEnd, limit) == lastSentenceEnd

\* the two returns after the scan: the latest boundary if any, else the cap
chunkFallback(lastSentenceEnd, limit) ==
  IF lastSentenceEnd > 0 THEN lastSentenceEnd ELSE limit

\* an early return at every boundary, however short the chunk
boundaryAnywhere(lastSentenceEnd) == TRUE

\* an early return from the scan: the boundary at i (0-based) ends the chunk
boundaryReached(lastSentenceEnd) == lastSentenceEnd >= MIN_CHUNK_WORDS

RECURSIVE scanChunk(_, _, _, _, _)
scanChunk(words, fromIndex, i, limit, lastSentenceEnd) ==
  IF i >= limit THEN chunkFallback(lastSentenceEnd, limit)
  ELSE IF isSentenceEnd(words[fromIndex + i + 1])
       THEN IF boundaryReached(i + 1) THEN i + 1
            ELSE scanChunk(words, fromIndex, i + 1, limit, i + 1)
       ELSE scanChunk(words, fromIndex, i + 1, limit, lastSentenceEnd)

\* a scan window that is not capped
scanLimitUncapped(remaining) == remaining

\* Math.min(remaining, MAX_CHUNK_WORDS): the number of words the scan looks at
scanLimit(remaining) == Min(remaining, MAX_CHUNK_WORDS)

\* a segmenter that scans for a boundary however few words remain
getChunkLengthAlwaysScans(words, fromIndex) ==
  scanChunk(words, fromIndex, 0, scanLimit(Len(words) - fromIndex), 0)

getChunkLength(words, fromIndex) ==
  LET remaining == Len(words) - fromIndex
  IN IF remaining <= MIN_CHUNK_WORDS THEN remaining
     ELSE scanChunk(words, fromIndex, 0, scanLimit(remaining), 0)

\* The offline adapter (useTTS.ts) has a getChunkLength of its own.
CHUNK_SIZE == 40
BREAK_SPAN == 15

\* a scan that finds no sentence end
scanBackFindsNone(words, fromIndex, i) == Min(CHUNK_SIZE, Len(words) - fromIndex)

\* for (i = fromIndex + CHUNK_SIZE - 1; i >= fromIndex + CHUNK_SIZE - 15; i--), i 0-based
RECURSIVE scanBack(_, _, _)
scanBack(words, fromIndex, i) ==
  IF i < fromIndex + CHUNK_SIZE - BREAK_SPAN THEN Min(CHUNK_SIZE, Len(words) - fromIndex)
  ELSE IF i < Len(words) /\ isSentenceEnd(words[i + 1]) THEN i - fromIndex + 1
       ELSE scanBack(words, fromIndex, i - 1)

getChunkLengthOffline(words, fromIndex) ==
  LET remaining == Len(words) - fromIndex
  IN IF remaining <= CHUNK_SIZE THEN remaining
     ELSE scanBack(words, fromIndex, fromIndex + CHUNK_SIZE - 1)

(***************************************************************************)
(* Timing tables                                                           *)
(***************************************************************************)
NoChunk == [startIndex |-> -1, chunkLen |-> 0, timings |-> <<>>]

\* Kokoro: serverTimestamps[i].start (seconds) -> one entry per word, in order
kokoroTimings(startIndex, chunkLen, serverStarts) ==
  [i \in 1..Min(Len(serverStarts), chunkLen) |->
     [wordIndex |-> startIndex + (i - 1), audioOffsetMs |-> serverStarts[i] * 1000]]

\* escapeXml: the length of what one character becomes
escapedLen(ch) ==
  CASE ch = "&" -> 5
    [] ch = "<" -> 4
    [] ch = ">" -> 4
    [] ch = "\"" -> 6
    [] ch = "'" -> 6
    [] OTHER -> 1

RECURSIVE escapedWordLen(_)
escapedWordLen(word) ==
  IF word = <<>> THEN 0 ELSE escapedLen(Head(word)) + escapedWordLen(Tail(word))

\* wordOffsets: pos starts at 0 and advances by ew.length + 1
RECURSIVE wordOffsetsFrom(_, _)
wordOffsetsFrom(chunkWords, pos) ==
  IF chunkWords = <<>> THEN <<>>
  ELSE <<pos>> \o wordOffsetsFrom(Tail(chunkWords), pos + escapedWordLen(Head(chunkWords)) + 1)

wordOffsets(chunkWords) == wordOffsetsFrom(chunkWords, 0)

\* the backward scan of the offset table; the word stays 0 when nothing matches
RECURSIVE offsetToWord(_, _, _)
offsetToWord(offsets, offsetInText, i) ==
  IF i < 1 THEN 0
  ELSE IF offsets[i] <= offsetInText THEN i - 1
       ELSE offsetToWord(offsets, offsetInText, i - 1)

\* a handler that records an entry for every notification
recordsEveryEvent(wordIdx, lastRecordedWord) == TRUE

\* whether synth.wordBoundary records an entry for wordIdx
recordsWord(wordIdx, lastRecordedWord) == wordIdx # lastRecordedWord

\* Azure: synth.wordBoundary, folded over the notifications of one request.
\* acc = [timings, lastRecordedWord]; an event is [textOffset, audioOffset] (ticks of 100 ns)
RECURSIVE azureTimingsFrom(_, _, _, _, _)
azureTimingsFrom(startIndex, offsets, prefixLen, events, acc) ==
  IF events = <<>> THEN acc.timings
  ELSE LET e == Head(events)
           offsetInText == e.textOffset - prefixLen
           wordIdx == offsetToWord(offsets, offsetInText, Len(offsets))
       IN IF offsetInText < 0
          THEN azureTimingsFrom(startIndex, offsets, prefixLen, Tail(events), acc)
          ELSE IF recordsWord(wordIdx, acc.lastRecordedWord)
               THEN azureTimingsFrom(startIndex, offsets, prefixLen, Tail(events),
                      [timings |-> Append(acc.timings,
                                     [wordIndex |-> startIndex + wordIdx,
                                      audioOffsetMs |-> e.audioOffset \div 10000]),
                       lastRecordedWord |-> wordIdx])
               ELSE azureTimingsFrom(startIndex, offsets, prefixLen, Tail(events), acc)

azureTimings(startIndex, chunkWords, prefixLen, events) ==
  azureTimingsFrom(startIndex, wordOffsets(chunkWords), prefixLen, events,
                   [timings |-> <<>>, lastRecordedWord |-> -1])

\* Offline adapter, buildUtterance: the offset of each word of the chunk in
\* chunk.join(" "); offset starts at 0 and advances by word.length + 1
RECURSIVE utteranceOffsetsFrom(_, _)
utteranceOffsetsFrom(chunk, offset) ==
  IF chunk = <<>> THEN <<>>
  ELSE <<offset>> \o utteranceOffsetsFrom(Tail(chunk), offset + Len(Head(chunk)) + 1)

utteranceOffsets(chunk) == utteranceOffsetsFrom(chunk, 0)

\* utterance.onboundary: the backward scan of offsets; wordIdx stays 0 when
\* nothing matches
RECURSIVE charIndexToWord(_, _, _)
charIndexToWord(offs, charIndex, i) ==
  IF i < 1 THEN 0
  ELSE IF offs[i] <= charIndex THEN i - 1
       ELSE charIndexToWord(offs, charIndex, i - 1)

\* utterance.onboundary for one notification [name, charIndex]: the calls of
\* onWordBoundary made so far, with the call it makes for a "word" notification
onboundary(chunkStart, offs, event, relayed) ==
  IF event.name = "word"
  THEN Append(relayed, chunkStart + charIndexToWord(offs, event.charIndex, Len(offs)))
  ELSE relayed

\* the notifications of one utterance, handled in the order of their arrival
RECURSIVE relayBoundaries(_, _, _, _)
relayBoundaries(chunkStart, offs, events, relayed) ==
  IF events = <<>> THEN relayed
  ELSE relayBoundaries(chunkStart, offs, Tail(events),
                       onboundary(chunkStart, offs, Head(events), relayed))

(***************************************************************************)
(* Position tracker: the scan of one poll frame                            *)
(***************************************************************************)
\* the table position (1-based; 0 where the code has -1) the backward scan stops at
RECURSIVE scanTimings(_, _, _)
scanTimings(timings, currentTimeMs, i) ==
  IF i < 1 THEN 0
  ELSE IF timings[i].audioOffsetMs <= currentTimeMs THEN i
       ELSE scanTimings(timings, currentTimeMs, i - 1)

\* a scan that stops at the first entry at or before the clock instead of the last
firstMatchIdx(timings, currentTimeMs) ==
  IF \E i \in 1..Len(timings) : timings[i].audioOffsetMs <= currentTimeMs
  THEN CHOOSE i \in 1..Len(timings) :
         /\ timings[i].audioOffsetMs <= currentTimeMs
         /\ \A j \in 1..(i - 1) : timings[j].audioOffsetMs > currentTimeMs
  ELSE 0

matchIdx(timings, currentTimeMs) == scanTimings(timings, currentTimeMs, Len(timings))

\* the condition under which syncLoop calls onWordBoundary
pollReports(timings, m, lastReported) ==
  m >= 1 /\ timings[m].wordIndex # lastReported

(***************************************************************************)
(* Buffered adapter (useKokoroTTS, useAzureTTS).  s is the adapter's whole  *)
(* state; every operator below is one function of the hook, as a function  *)
(* from the state before to the state after.                               *)
(*   s.reqs    the promises synthesizeChunk returned, by id                *)
(*   s.conts   the suspended continuations (await), oldest first           *)
(*   s.audios  the HTMLAudioElements created, by id, each with the queue q *)
(*             of notifications the browser has queued for its handlers    *)
(*   s.frames  the audio elements whose syncLoop has a frame scheduled     *)
(*   s.out     what the step just taken delivered to the caller and did    *)
(***************************************************************************)
DeadAudio ==
  [gen |-> 0, chunk |-> NoChunk, st |-> "dead", clock |-> 0,
   q |-> <<>>, pf |-> 0, next |-> 0, url |-> FALSE, fin |-> 0]

\* The promise of play() is pending until the element starts to play, which is
\* not before its 'play' notification has been delivered.
playPending(au) == au.q # <<>> /\ Head(au.q) = "play"

DeadReq ==
  [start |-> 0, len |-> 0, offsets |-> <<>>, ac |-> 0, gen |-> 0, st |-> "dead", res |-> NoChunk]

\* a call of onWordBoundaryRef.current / onEndRef.current, or a side effect,
\* made by code of session gen.  The index a session delivered last is kept where
\* the word stream of a session is followed (mode "track"); the calls of onEnd are
\* counted where one session is left to itself (mode "live").
emit(s, kind, idx, gen) ==
  [s EXCEPT
     !.out = Append(@, [kind |-> kind, idx |-> idx, gen |-> gen, cur |-> s.generation,
                        afterStop |-> gen \in s.stoppedGens,
                        afterNull |-> gen \in s.nulled,
                        again |-> kind = "synth" /\ <<gen, idx>> \in s.asked,
                        slot |-> s.prefetched.startIndex,
                        prev |-> IF kind = "wb" THEN s.delivered[gen]
                                 ELSE IF kind = "play" THEN s.followsAt[gen] ELSE -1]),
     !.delivered = IF kind = "wb" /\ s.mode = "track" THEN [@ EXCEPT ![gen] = idx] ELSE @,
     !.ends = IF kind = "ended" /\ s.mode = "live" THEN [@ EXCEPT ![gen] = Min(@ + 1, 2)] ELSE @,
     !.asked = IF kind = "synth" /\ s.mode = "fail" THEN @ \cup {<<gen, idx>>} ELSE @]

\* fetch(..., {signal}) of the Kokoro adapter rejects when its controller aborts;
\* the Azure adapter hands no signal to the SDK
honoursAbort(adapter) == adapter = "kokoro"

\* AbortController.abort()
abortController(s, ac) ==
  IF ac = 0 THEN s
  ELSE [s EXCEPT
          !.aborted = @ \cup {ac},
          !.reqs = [i \in DOMAIN s.reqs |->
                      IF honoursAbort(s.adapter) /\ s.reqs[i].st = "pending" /\ s.reqs[i].ac = ac
                      THEN [s.reqs[i] EXCEPT !.st = "done", !.res = NoChunk]
                      ELSE s.reqs[i]]]

\* cancelAnimationFrame(rafRef.current)
cancelFrame(s) == [s EXCEPT !.frames = @ \ {s.rafRef}]

\* audio.pause() and URL.revokeObjectURL(audio.src) in cleanup.  Pausing rejects a
\* pending promise of play(); a notification the browser has already queued for the
\* element ('play', 'ended', 'error') is still delivered.
pauseAudio(s, a) ==
  LET au == s.audios[a]
  IN [s EXCEPT !.audios[a] =
        [au EXCEPT !.st = IF au.st \in {"playing", "ended"} THEN "paused" ELSE au.st,
                   !.q = IF au.st = "playing" /\ playPending(au)
                         THEN Append(au.q, "rejected") ELSE au.q,
                   !.url = FALSE]]

cleanup(s) ==
  LET s1 == cancelFrame(s)
      s2 == [abortController(s1, s1.abortRef) EXCEPT !.abortRef = 0]
      s3 == IF s2.audioRef # 0
            THEN [pauseAudio(s2, s2.audioRef) EXCEPT !.audioRef = 0]
            ELSE s2
  IN [s3 EXCEPT !.lastReported = -1, !.prefetched = NoChunk]

\* synthesizeChunk, up to the request it sends: the state with the promise appended
synthesizeChunk(s, startIndex, ac) ==
  LET words == s.allWords
      chunkLen == getChunkLength(words, startIndex)
      chunkWords == SubSeq(words, startIndex + 1, startIndex + chunkLen)
      req == [start |-> startIndex, len |-> chunkLen,
              offsets |-> IF s.adapter = "azure" THEN wordOffsets(chunkWords) ELSE <<>>,
              ac |-> ac, gen |-> s.generation, st |-> "pending", res |-> NoChunk]
  IN IF startIndex >= Len(words)
     THEN [s EXCEPT !.reqs = Append(@, [req EXCEPT !.st = "done"])]
     ELSE emit([s EXCEPT !.reqs = Append(@, req)], "synth", startIndex, s.generation)

\* playChunk: the element, its handlers, audio.play()
playChunk(s, chunk, gen, pf, next) ==
  LET a == Len(s.audios) + 1
      au == [gen |-> gen, chunk |-> chunk, st |-> "playing", clock |-> 0,
             q |-> <<"play">>, pf |-> pf, next |-> next, url |-> TRUE, fin |-> 0]
      s1 == emit([s EXCEPT !.audios = Append(@, au), !.audioRef = a],
                 "play", chunk.startIndex, gen)
  IN IF s.mode \in {"track", "live"}
     THEN [s1 EXCEPT !.followsAt[gen] = chunk.startIndex + chunk.chunkLen]
     ELSE s1

\* the checkpoint of playFromIndex after the chunk is at hand
chunkUsable(s, chunk, gen, ac) ==
  ~(chunk = NoChunk \/ s.stopped \/ ac \in s.aborted \/ gen # s.generation)

\* a scheduler that synthesizes every chunk on demand
prefetchesNever(s, nextStartIndex) == FALSE

\* nextStartIndex < words.length: the next chunk is requested before this one plays
prefetches(s, nextStartIndex) == nextStartIndex < Len(s.allWords)

\* playFromIndex from the checkpoint after `chunk = ...` on
\* s.late: code of a superseded session has run in this step (noted where sessions
\* supersede one another)
observed(s, gen) ==
  IF s.mode = "sched" /\ gen # s.generation THEN [s EXCEPT !.late = TRUE] ELSE s

\* a session that gives up whatever the generation is
anyGeneration(s, gen) == TRUE

\* gen === generationRef.current, the condition of setSpeaking(false) when the
\* session gives up its chunk
stillCurrent(s, gen) == gen = s.generation

afterSynth(s0, chunk, gen, ac) ==
  LET s == observed(s0, gen)
  IN
  IF ~chunkUsable(s, chunk, gen, ac)
  THEN IF stillCurrent(s, gen)
       THEN IF s.mode = "fail" /\ chunk = NoChunk /\ ~s.stopped
            THEN emit([s EXCEPT !.speaking = FALSE, !.nulled = @ \cup {gen}], "null", -1, gen)
            ELSE [s EXCEPT !.speaking = FALSE]
       ELSE s
  ELSE LET nextStartIndex == chunk.startIndex + chunk.chunkLen
           s1 == IF prefetches(s, nextStartIndex)
                 THEN synthesizeChunk(s, nextStartIndex, ac) ELSE s
           pf == IF prefetches(s, nextStartIndex) THEN Len(s1.reqs) ELSE 0
       IN playChunk(s1, chunk, gen, pf, nextStartIndex)

\* the guard at the top of playFromIndex
exhausted(s, startIndex) == startIndex >= Len(s.allWords) \/ s.stopped

\* a scheduler that never looks at the prefetched slot
ignoresPrefetched(s, startIndex) == FALSE

\* prefetchedRef.current?.startIndex === startIndex
usesPrefetched(s, startIndex) == s.prefetched.startIndex = startIndex

playFromIndex(s, startIndex) ==
  IF exhausted(s, startIndex)
  THEN emit([s EXCEPT !.speaking = FALSE], "ended", startIndex, s.generation)
  ELSE LET gen == s.generation
           ac == s.nAc + 1
           s1 == [abortController(s, s.abortRef) EXCEPT !.nAc = ac, !.abortRef = ac]
       IN IF usesPrefetched(s1, startIndex)
          THEN afterSynth([s1 EXCEPT !.prefetched = NoChunk], s1.prefetched, gen, ac)
          ELSE LET s2 == [synthesizeChunk(s1, startIndex, ac) EXCEPT !.prefetched = NoChunk]
               IN [s2 EXCEPT !.conts = Append(@, [k |-> "synth", gen |-> gen, ac |-> ac,
                                                   req |-> Len(s2.reqs), next |-> 0])]

\* the first checkpoint of the completion callback handed to playChunk
finishedGuard(s, gen) == s.stopped \/ gen # s.generation

\* a completion callback that stores whatever result its prefetch brought
storesAnyResult(s, gen, prefetched) == prefetched # NoChunk

\* whether the awaited prefetch result is stored in prefetchedRef
storesPrefetch(s, gen, prefetched) ==
  ~s.stopped /\ gen = s.generation /\ prefetched # NoChunk

\* the completion callback after `await prefetchPromise`
afterPrefetch(s0, prefetched, gen, next) ==
  LET s == observed(s0, gen)
      s1 == IF storesPrefetch(s, gen, prefetched)
            THEN emit([s EXCEPT !.prefetched = prefetched], "store", prefetched.startIndex, gen)
            ELSE s
  IN IF gen # s1.generation THEN s1 ELSE playFromIndex(s1, next)

\* a completion callback that does nothing
onFinishedDropped(s, a) == s

\* the completion callback of audio element a (onFinished)
\* audios[a].fin: how often the completion callback of element a has run (2 for
\* more than once)
onFinished(s, a) ==
  LET au == s.audios[a]
      s0 == observed([s EXCEPT !.audios[a].fin = Min(@ + 1, 2)], au.gen)
  IN IF finishedGuard(s0, au.gen) THEN s0
     ELSE IF au.pf # 0
          THEN [s0 EXCEPT !.conts = Append(@, [k |-> "pf", gen |-> au.gen, ac |-> 0,
                                                req |-> au.pf, next |-> au.next])]
          ELSE IF au.gen # s0.generation THEN s0 ELSE playFromIndex(s0, au.next)

\* the continuations whose promise has settled run before the next task
RECURSIVE drain(_)
drain(s) ==
  LET ready == {i \in 1..Len(s.conts) : s.reqs[s.conts[i].req].st = "done"}
  IN IF ready = {} THEN s
     ELSE LET i == CHOOSE j \in ready : \A k \in ready : j <= k
              c == s.conts[i]
              s1 == [s EXCEPT !.conts = SubSeq(@, 1, i - 1) \o SubSeq(@, i + 1, Len(@))]
              res == s.reqs[c.req].res
          IN drain(IF c.k = "synth" THEN afterSynth(s1, res, c.gen, c.ac)
                   ELSE afterPrefetch(s1, res, c.gen, c.next))

speak(s, words, fromIndex) ==
  LET s1 == cleanup(s)
      s2 == [s1 EXCEPT !.generation = @ + 1, !.stopped = FALSE, !.allWords = words,
                       !.loading = (s.adapter = "kokoro"), !.speaking = TRUE,
                       !.sessionFrom = IF s.mode = "live" THEN fromIndex ELSE @]
  IN playFromIndex(s2, fromIndex)

stop(s) ==
  LET s1 == [s EXCEPT !.stopped = TRUE, !.stoppedGens = @ \cup {s.generation}]
  IN [cleanup(s1) EXCEPT !.loading = FALSE, !.speaking = FALSE]

\* the chunk an element plays, named by its session and its first word
chunkOf(s, a) == <<s.audios[a].gen, s.audios[a].chunk.startIndex>>

\* how often the word of the final timing entry of a's chunk has gone out
\* (0, 1, or 2 for more than once)
finalCount(s, a) ==
  IF chunkOf(s, a) \in s.finalTwice THEN 2
  ELSE IF chunkOf(s, a) \in s.finalOnce THEN 1 ELSE 0

\* onWordBoundaryRef.current(idx) called by the code of element a; where the word
\* stream is followed, the deliveries of the chunk's final word are counted
reportWord(s, a, idx) ==
  LET timings == s.audios[a].chunk.timings
      s1 == emit(s, "wb", idx, s.audios[a].gen)
  IN IF s.mode = "track" /\ idx = timings[Len(timings)].wordIndex
     THEN IF finalCount(s, a) = 0
          THEN [s1 EXCEPT !.finalOnce = @ \cup {chunkOf(s, a)}]
          ELSE [s1 EXCEPT !.finalTwice = @ \cup {chunkOf(s, a)}]
     ELSE s1

\* one run of syncLoop for audio element a, which reads audio.currentTime = clock
syncLoop(s, a, clock) ==
  LET au == s.audios[a]
      s0 == [s EXCEPT !.frames = @ \ {a}, !.audios[a].clock = clock]
  IN IF s0.stopped \/ s0.audioRef = 0 THEN s0
     ELSE LET timings == au.chunk.timings
              m == matchIdx(timings, clock * 1000)
              s1 == IF pollReports(timings, m, s0.lastReported)
                    THEN reportWord([s0 EXCEPT !.lastReported = timings[m].wordIndex],
                                    a, timings[m].wordIndex)
                    ELSE s0
          IN [s1 EXCEPT !.rafRef = a, !.frames = @ \cup {a}]

\* audio.onplay
onplay(s, a) ==
  [s EXCEPT !.loading = IF s.adapter = "kokoro" THEN FALSE ELSE @,
            !.rafRef = a, !.frames = @ \cup {a}]

\* whether onended still has the chunk's last word to report
flushesLast(timings, lastReported) ==
  Len(timings) > 0 /\ timings[Len(timings)].wordIndex # lastReported

\* whether a termination handler of element a clears audioRef
clearsAudioRef(s, a) == TRUE

releaseAudio(s, a) ==
  [s EXCEPT !.audios[a].url = FALSE,
            !.audioRef = IF clearsAudioRef(s, a) THEN 0 ELSE @]

\* audio.onended
onended(s, a) ==
  LET timings == s.audios[a].chunk.timings
      s1 == cancelFrame(s)
      s2 == IF flushesLast(timings, s1.lastReported)
            THEN [reportWord(s1, a, timings[Len(timings)].wordIndex)
                    EXCEPT !.lastReported = timings[Len(timings)].wordIndex]
            ELSE s1
      s3 == IF s.mode = "track" /\ Len(timings) > 0
            THEN emit(s2, "chunkEnd", finalCount(s2, a), s2.audios[a].gen)
            ELSE s2
  IN onFinished(releaseAudio(s3, a), a)

\* a playback error of element a is noted, with the index the chunk after it
\* starts at, where failures are followed
playbackError(s, a) ==
  IF s.mode = "fail" THEN emit(s, "fail", s.audios[a].next, s.audios[a].gen) ELSE s

\* audio.onerror
onerror(s, a) == onFinished(playbackError(releaseAudio(cancelFrame(s), a), a), a)

\* audio.play().catch(...)
onPlayRejected(s, a) == onFinished(playbackError(releaseAudio(s, a), a), a)

(***************************************************************************)
(* The buffered adapter as a state machine                                 *)
(***************************************************************************)
SsmlFixedLen == 117
VoiceName == <<"e", "n", "-", "U", "S", "-", "A", "v", "a">>
ssmlPrefixLen == SsmlFixedLen + Len(VoiceName)

\* the word streams and start indices speak() is called with
\* (17 words, a sentence end at word 15: the chunks are words 0..14 and 15..16;
\* a session starts at the first chunk or at the second)
SpeakInputs ==
  { [words |-> WordsWith(17, {15}), fromIndex |-> 0],
    [words |-> WordsWith(17, {15}), fromIndex |-> 15] }

\* Spec explores the scheduling of up to MaxSpeak sessions with timing tables of at
\* most one entry; SpecTrack explores one session with tables of up to MaxTs entries.
speakLimit(s) == IF s.mode \in {"track", "fail"} THEN 1 ELSE MaxSpeak
tsLimit(s) == IF s.mode = "track" THEN MaxTs ELSE 1

\* what the Kokoro server can answer: the start (s) of each timestamp it returns
kokoroStarts(n) == UNION { [1..k -> 0..MaxClock] : k \in 0..n }

\* what the Azure service can notify for a request: word boundaries at the start
\* offset of a word of the chunk, or before the text, at any audio offset
azureEvents(req, n) ==
  [textOffset : {ssmlPrefixLen - 1} \cup
                {ssmlPrefixLen + req.offsets[k] : k \in 1..Min(n, Len(req.offsets))},
   audioOffset : {t * 10000000 : t \in 0..MaxClock}]

\* the notifications of one request arrive in the order in which the text is spoken
inTextOrder(ev) == \A i \in 1..(Len(ev) - 1) : ev[i].textOffset <= ev[i + 1].textOffset

azureTables(req, n) ==
  { azureTimingsFrom(req.start, req.offsets, ssmlPrefixLen, ev,
                     [timings |-> <<>>, lastRecordedWord |-> -1]) :
      ev \in { e \in UNION { [1..k -> azureEvents(req, n)] : k \in 0..n } : inTextOrder(e) } }

kokoroTables(req, n) == { kokoroTimings(req.start, req.len, st) : st \in kokoroStarts(n) }

\* records of finished elements and settled, unreferenced promises are dropped
gc(s) ==
  LET deadAudio(a) == LET au == s.audios[a]
                      IN /\ au.st \in {"paused", "ended", "failed"}
                         /\ au.q = <<>> /\ a \notin s.frames /\ s.audioRef # a /\ ~au.url
      audios == [a \in DOMAIN s.audios |-> IF deadAudio(a) THEN DeadAudio ELSE s.audios[a]]
      used(r) == \/ \E i \in 1..Len(s.conts) : s.conts[i].req = r
                 \/ \E a \in DOMAIN audios : audios[a].pf = r
      acs == {s.abortRef} \cup {s.conts[i].ac : i \in 1..Len(s.conts)}
                \cup {s.reqs[r].ac : r \in {x \in DOMAIN s.reqs : s.reqs[x].st = "pending"}}
      polled(a) == a \in s.frames \/ (audios[a].q # <<>> /\ Head(audios[a].q) = "play")
      gens == {audios[a].gen : a \in DOMAIN audios} \cup {s.generation}
                 \cup {s.conts[i].gen : i \in 1..Len(s.conts)}
  IN [s EXCEPT
        !.audios = [a \in DOMAIN audios |->
                      IF polled(a) THEN audios[a] ELSE [audios[a] EXCEPT !.clock = 0]],
        !.reqs = [r \in DOMAIN s.reqs |-> IF used(r) THEN s.reqs[r] ELSE DeadReq],
        !.aborted = @ \cap acs,
        !.rafRef = IF @ \in s.frames THEN @ ELSE 0,
        !.stoppedGens = @ \cap gens,
        !.delivered = [g \in DOMAIN @ |-> IF g \in gens THEN @[g] ELSE -1],
        !.followsAt = [g \in DOMAIN @ |-> IF g \in gens THEN @[g] ELSE -1],
        !.ends = [g \in DOMAIN @ |-> IF g \in gens THEN @[g] ELSE 0],
        !.asked = {c \in @ : c[1] \in gens},
        !.nulled = @ \cap gens,
        !.finalOnce = {c \in @ : c[1] \in gens},
        !.finalTwice = {c \in @ : c[1] \in gens}]

TtsIdle ==
  [mode |-> "off", adapter |-> "none", stopped |-> FALSE, generation |-> 0, allWords |-> <<>>,
   audioRef |-> 0, rafRef |-> 0, lastReported |-> -1, prefetched |-> NoChunk,
   abortRef |-> 0, speaking |-> FALSE, loading |-> FALSE, aborted |-> {}, nAc |-> 0,
   reqs |-> <<>>, conts |-> <<>>, audios |-> <<>>, frames |-> {}, out |-> <<>>,
   stoppedGens |-> {}, delivered |-> [g \in 0..MaxSpeak |-> -1],
   finalOnce |-> {}, finalTwice |-> {}, followsAt |-> [g \in 0..MaxSpeak |-> -1],
   ends |-> [g \in 0..MaxSpeak |-> 0], sessionFrom |-> -1, asked |-> {}, nulled |-> {},
   late |-> FALSE]

SegIdle ==
  [words |-> <<>>, fromIndex |-> 0, cursor |-> 0, lengths |-> <<>>,
   offCursor |-> 0, utterances |-> <<>>]
Providers == {"browser", "azure", "kokoro"}
Configurable == {"azure", "kokoro"}
\* the voice names an adapter can be given, and the voice of an adapter without configuration
Voices == {"voiceA", "voiceB"}
NoVoice == "undefined"

\* the facade before any call, with the browser adapter selected and nothing configured
FacIdle ==
  [provider |-> "browser", ready |-> [p \in Configurable |-> FALSE],
   voice |-> [p \in Providers |-> IF p = "browser" THEN "voiceA" ELSE NoVoice],
   prevVoice |-> [p \in Providers |-> IF p = "browser" THEN "voiceA" ELSE NoVoice],
   speaking |-> [p \in Providers |-> FALSE], speakingRef |-> FALSE,
   enabled |-> FALSE, lastWordsLen |-> 0, lastWordIndex |-> 0, restartTimer |-> "none",
   timers |-> <<>>, burst |-> 0, settled |-> 0, silenced |-> FALSE,
   calls |-> <<>>, sessionFrom |-> 0, lastRelayed |-> -1, op |-> "none",
   pre |-> [active |-> "browser", speakingRef |-> FALSE, speaking |-> [p \in Providers |-> FALSE]]]
\* the offline adapter before any call, the platform's queue empty
OffIdle ==
  [stopped |-> FALSE, allWords |-> <<>>, chunkStart |-> 0, speaking |-> FALSE,
   utts |-> <<>>, session |-> 0, out |-> <<>>, lastWb |-> [g \in 0..MaxSpeak |-> -1]]
PollIdle ==
  [timings |-> <<>>, clock |-> 0, lastReported |-> -1, before |-> -1,
   m |-> 0, reported |-> -1, polled |-> FALSE,
   backend |-> "none", events |-> <<>>, starts |-> <<>>, built |-> FALSE, relayed |-> <<>>]

InitTts(mode) ==
  /\ tts \in {[TtsIdle EXCEPT !.mode = mode, !.adapter = ad] : ad \in {"kokoro", "azure"}}
  /\ seg = SegIdle /\ fac = FacIdle /\ poll = PollIdle /\ off = OffIdle

\* a session in which requests fail is followed for one request more
reqLimit(s) == IF s.mode = "fail" THEN MaxReq + 1 ELSE MaxReq

withinBounds(s) == Len(s.audios) <= MaxAudio /\ Len(s.reqs) <= reqLimit(s)

\* the task ends: microtasks run, the step is taken
Commit(s) ==
  LET s1 == gc(drain(s))
  IN withinBounds(s1) /\ tts' = s1 /\ UNCHANGED <<seg, fac, poll, off>>

begin == [tts EXCEPT !.out = <<>>, !.late = FALSE]

Speak ==
  \E in \in SpeakInputs :
     /\ tts.generation < speakLimit(tts)
     /\ Commit(speak(begin, in.words, in.fromIndex))

Stop == ~tts.stopped /\ Commit(stop(begin))

\* a request fails: transport error, bad status, no audio, cancelled synthesis
SynthFails ==
  \E r \in 1..Len(tts.reqs) :
     /\ tts.reqs[r].st = "pending"
     /\ Commit([begin EXCEPT !.reqs[r].st = "done"])

\* a request succeeds with audio and a timing table
SynthReturns ==
  \E r \in 1..Len(tts.reqs) :
     /\ tts.reqs[r].st = "pending"
     /\ \E timings \in IF tts.adapter = "kokoro" THEN kokoroTables(tts.reqs[r], tsLimit(tts))
                                                 ELSE azureTables(tts.reqs[r], tsLimit(tts)) :
          Commit([begin EXCEPT !.reqs[r].st = "done",
                               !.reqs[r].res = [startIndex |-> tts.reqs[r].start,
                                                chunkLen |-> tts.reqs[r].len,
                                                timings |-> timings]])

\* the browser delivers the oldest queued notification of an element to its handler
Notify ==
  \E a \in 1..Len(tts.audios) :
     /\ tts.audios[a].q # <<>>
     /\ LET n == Head(tts.audios[a].q)
            s == [begin EXCEPT !.audios[a].q = Tail(@)]
        IN Commit(CASE n = "play" -> onplay(s, a)
                    [] n = "ended" -> onended(s, a)
                    [] n = "error" -> onerror(s, a)
                    [] n = "rejected" -> onPlayRejected(s, a))

\* an animation frame runs the syncLoop scheduled for an element
Frame ==
  \E a \in tts.frames :
     \E clock \in tts.audios[a].clock..MaxClock :
        /\ (clock = tts.audios[a].clock \/ tts.audios[a].st \in {"playing", "ended"})
        /\ Commit(syncLoop(begin, a, clock))

\* playback reaches the end of the media: 'ended' is queued
AudioEnds ==
  \E a \in 1..Len(tts.audios) :
     /\ tts.audios[a].st = "playing" /\ ~playPending(tts.audios[a])
     /\ Commit([begin EXCEPT !.audios[a].st = "ended", !.audios[a].q = Append(@, "ended")])

\* the media fails: 'error' is queued and a pending promise of play() is rejected
AudioFails ==
  \E a \in 1..Len(tts.audios) :
     /\ tts.audios[a].st = "playing"
     /\ Commit([begin EXCEPT
                  !.audios[a].st = "failed",
                  !.audios[a].q = IF playPending(tts.audios[a]) THEN @ \o <<"error", "rejected">>
                                  ELSE Append(@, "error")])

NextTts ==
  \/ Speak \/ Stop \/ SynthFails \/ SynthReturns
  \/ Notify \/ Frame \/ AudioEnds \/ AudioFails

Spec == InitTts("sched") /\ [][NextTts]_vars

SpecTrack == InitTts("track") /\ [][NextTts]_vars

\* one session whose requests and elements may fail, with the requests it issues
\* and the null results it meets kept as history
SpecFail == InitTts("fail") /\ [][NextTts]_vars

\* One session left to itself: every synthesis request succeeds, every started
\* audio ends, and neither stop() nor a second speak() is called.
LiveInputs ==
  SpeakInputs \cup { [words |-> WordsWith(32, {15, 30}), fromIndex |-> i] : i \in {0, 31} }

SpeakOnce ==
  \E in \in LiveInputs :
     /\ tts.generation = 0
     /\ Commit(speak(begin, in.words, in.fromIndex))

NextLive == SpeakOnce \/ SynthReturns \/ Notify \/ Frame \/ AudioEnds

\* a synthesis request is unanswered; a notification of an element is queued
synthPending == \E r \in 1..Len(tts.reqs) : tts.reqs[r].st = "pending"
notifyPending == \E a \in 1..Len(tts.audios) : tts.audios[a].q # <<>>

\* The service answers every request, the browser delivers every queued
\* notification, and every element that plays reaches the end of its media: weak
\* fairness of SynthReturns, Notify and AudioEnds. For the first two the enabling
\* condition of WF_vars is written out as the state predicate it amounts to.
SpecLive ==
  /\ InitTts("live") /\ [][NextLive]_vars
  /\ ([]<>~synthPending \/ []<><<SynthReturns>>_vars)
  /\ ([]<>~notifyPending \/ []<><<Notify>>_vars)
  /\ WF_vars(AudioEnds)

(***************************************************************************)
(* Properties of the buffered adapters.  tts.out holds what the step just  *)
(* taken delivered: each delivery records the session (gen) whose code made *)
(* it, the adapter's generation at that moment (cur), whether stop() had    *)
(* already returned for that session (afterStop) and, for a wordBoundary,   *)
(* the index that session delivered before it (prev, -1 if none).          *)
(***************************************************************************)
delivered(kind) == {i \in 1..Len(tts.out) : tts.out[i].kind = kind}

\* C1: once stop() has returned, no wordBoundary callback is delivered for the
\* stopped session, whatever the interleaving of stop() with synthesis responses,
\* poll-loop frames and the element's ended / error / play-rejected notifications.
C1_NoBoundaryAfterStop ==
  \A i \in delivered("wb") : ~tts.out[i].afterStop

\* C2: at every instant at most one audio element is playing.
C2_AtMostOnePlaying ==
  Cardinality({a \in 1..Len(tts.audios) : tts.audios[a].st = "playing"}) <= 1

\* C3: ended() is delivered only when the scheduler reaches fromIndex >= len(words)
\* in a session that was not stopped; it is never delivered after stop().
C3_EndedOnlyOnExhaustion ==
  \A i \in delivered("ended") :
     tts.out[i].idx >= Len(tts.allWords) /\ ~tts.out[i].afterStop

\* C4: once a later speak() has superseded a session, no code of the superseded
\* session starts playback, issues a synthesis request, stores a prefetched chunk
\* or delivers wordBoundary / ended.
C4_SupersededHasNoEffects ==
  \A i \in 1..Len(tts.out) : tts.out[i].gen = tts.out[i].cur

\* C11: when a chunk's audio ends and its timing table is not empty, the word of the
\* final timing entry has gone out through wordBoundary exactly once for that chunk
\* when the chunk's completion callback is called.
C11_LastWordExactlyOnce ==
  \A i \in delivered("chunkEnd") : tts.out[i].idx = 1

\* C13: within one session the chunks whose audio is started follow one another:
\* each starts at the previous chunk's startIndex + chunkLen (so the start indices
\* strictly increase), and a prefetched result is played only as that next chunk.
C13_ChunksStartInSequence ==
  \A i \in delivered("play") :
     tts.out[i].prev # -1 => tts.out[i].idx = tts.out[i].prev

\* C14: in a session speak(words, i) that is left to itself (every synthesis
\* succeeds, every started audio ends, no stop() and no further speak()), the
\* chunks played start at i and follow one another, ended() is never delivered
\* twice, and eventually ended() has been delivered exactly once, speaking is
\* false, and the chunks played cover i .. len(words) - 1.
sessionComplete ==
  /\ tts.ends[1] = 1
  /\ ~tts.speaking
  /\ tts.followsAt[1] = Len(tts.allWords)

C14_SessionRunsToTheEnd ==
  /\ [](\A i \in delivered("play") :
          tts.out[i].idx = IF tts.out[i].prev = -1 THEN tts.sessionFrom ELSE tts.out[i].prev)
  /\ [](tts.ends[1] <= 1)
  /\ [](tts.ends[1] = 1 => sessionComplete)
  /\ (tts.generation = 1 ~> sessionComplete)

\* a session of 32 words started at 0 has ended after playing its three chunks
C14_Witness ==
  /\ sessionComplete
  /\ tts.sessionFrom = 0
  /\ Len(tts.allWords) = 32

\* C21: once an awaited synthesis request has returned null to the current, not
\* stopped session, the session is over: speaking is false, and the session
\* delivers no ended() and no wordBoundary, starts no audio and issues no request.
C21_NullResultEndsTheSession ==
  /\ \A i \in delivered("null") : ~tts.speaking
  /\ \A i \in 1..Len(tts.out) :
        tts.out[i].afterNull => tts.out[i].kind \notin {"ended", "wb", "play", "synth"}

\* C23: a playback error of a chunk ('error' or a rejected play()) in the current,
\* not stopped session is treated as the end of the chunk: the chunk's final word
\* is not delivered, speaking stays true unless the words are exhausted, and the
\* session goes on with the chunk at startIndex + chunkLen (ended() at len(words)).
C23_PlaybackErrorIsChunkEnd ==
  \A i \in delivered("fail") :
     (tts.out[i].gen = tts.out[i].cur /\ ~tts.out[i].afterStop) =>
        /\ delivered("wb") = {}
        /\ tts.speaking \/ \E j \in delivered("ended") : tts.out[j].idx >= Len(tts.allWords)
        /\ \/ \E j \in (i + 1)..Len(tts.out) :
                /\ tts.out[j].kind \in {"play", "synth", "ended"}
                /\ tts.out[j].idx = tts.out[i].idx
           \/ \E c \in 1..Len(tts.conts) :
                tts.conts[c].k = "pf" /\ tts.conts[c].next = tts.out[i].idx

\* C24: after stop() or a superseding speak() no synthesis request of the old
\* session is still outstanding: each was cancelled and has completed with null,
\* so none can produce an audio payload afterwards.
C24_OldRequestsAreCancelled ==
  \A r \in 1..Len(tts.reqs) :
     tts.reqs[r].st = "pending" => (tts.reqs[r].gen = tts.generation /\ ~tts.stopped)

\* a synthesis request of the current session is unanswered
hungRequest ==
  \E r \in 1..Len(tts.reqs) : tts.reqs[r].st = "pending" /\ tts.reqs[r].gen = tts.generation

\* C25: with a request of the current session unanswered, stop() takes effect at
\* once (speaking is false and no audio is playing when it returns), and a speak()
\* then starts a session that is speaking and has a request of its own.
C25_HungRequestBlocksNothing ==
  [][/\ (hungRequest /\ Stop) =>
          /\ ~tts'.speaking
          /\ \A a \in 1..Len(tts'.audios) : tts'.audios[a].st # "playing"
     /\ (hungRequest /\ Speak) =>
          /\ tts'.speaking /\ ~tts'.stopped
          /\ \E r \in 1..Len(tts'.reqs) :
                tts'.reqs[r].st = "pending" /\ tts'.reqs[r].gen = tts'.generation]_vars

\* the elements whose audio delivery i of the step has started
startedBy(i) ==
  {a \in 1..Len(tts.audios) :
      /\ tts.audios[a].gen = tts.out[i].gen
      /\ tts.audios[a].chunk.startIndex = tts.out[i].idx
      /\ tts.audios[a].q = <<"play">>}

\* C26: when a chunk starts playing and words follow it, the request for the chunk
\* at startIndex + chunkLen has been issued before, and the completion callback
\* awaits it; when the chunk ends the words, no prefetch request is issued.
C26_PrefetchBeforePlayback ==
  \A i \in delivered("play") : \A a \in startedBy(i) :
     LET next == tts.audios[a].chunk.startIndex + tts.audios[a].chunk.chunkLen
         pf == tts.audios[a].pf
     IN IF next < Len(tts.allWords)
        THEN /\ \E j \in 1..(i - 1) :
                  /\ tts.out[j].kind = "synth" /\ tts.out[j].idx = next
                  /\ tts.out[j].gen = tts.out[i].gen
             /\ pf # 0 /\ tts.reqs[pf].start = next /\ tts.reqs[pf].gen = tts.out[i].gen
        ELSE /\ pf = 0
             /\ \A j \in delivered("synth") : tts.out[j].idx < next

\* the last chunk starts to play with no request made for it in this step, in a
\* session whose first chunk was played with the last one requested ahead
C26_Witness ==
  /\ \E i \in delivered("play") :
        /\ tts.out[i].idx = 15 /\ startedBy(i) # {}
        /\ \A a \in startedBy(i) : tts.audios[a].pf = 0
  /\ delivered("synth") = {}
  /\ {<<1, 0>>, <<1, 15>>} \subseteq tts.asked

\* C27: the prefetched slot is a single reference; a result is put into it only
\* by the current, not stopped session, and it is the chunk that session plays
\* next, taken out again by the playFromIndex call that follows at once; so the
\* slot is empty whenever no code of the adapter runs, after stop() and speak()
\* in particular.
C27_SlotHoldsTheNextChunk ==
  /\ tts.prefetched = NoChunk
  /\ \A i \in delivered("store") :
        /\ tts.out[i].gen = tts.out[i].cur /\ tts.out[i].gen = tts.generation
        /\ ~tts.out[i].afterStop
        /\ \E j \in (i + 1)..Len(tts.out) :
              /\ tts.out[j].kind = "play" /\ tts.out[j].idx = tts.out[i].idx
              /\ tts.out[j].gen = tts.out[i].gen

\* the second session stores the prefetched second chunk and plays it
C27_Witness ==
  \E i \in delivered("store") :
     /\ tts.out[i].gen = 2 /\ tts.out[i].idx = 15
     /\ \E j \in (i + 1)..Len(tts.out) : tts.out[j].kind = "play" /\ tts.out[j].idx = 15

\* C28: an object URL created for a chunk's playback that is not yet released
\* belongs to an element of the current, not stopped session whose playback has
\* neither ended nor failed with its handler run: after stop() and after a
\* superseding speak() no URL of the abandoned playback is left.
C28_NoHandleOutlivesItsPlayback ==
  \A a \in 1..Len(tts.audios) :
     tts.audios[a].url =>
        /\ tts.audios[a].gen = tts.generation
        /\ ~tts.stopped

\* C22 as stated: within one session no chunk start index is requested twice.
C22_NoSecondRequest ==
  \A i \in delivered("synth") : ~tts.out[i].again

\* C22 amended: a chunk start index is requested again only when the prefetched
\* slot holds no result for it on entry of playFromIndex, as it does after the
\* prefetch for that index returned null; a stored prefetched result is used.
C22_SecondRequestOnlyWithoutPrefetched ==
  \A i \in delivered("synth") : tts.out[i].again => tts.out[i].slot # tts.out[i].idx

\* the second chunk is requested again after its prefetch returned null
C22_Witness ==
  \E i \in delivered("synth") :
     tts.out[i].again /\ tts.out[i].idx = 15 /\ tts.out[i].slot = -1

\* C19: every speak() and every stop() strictly increases the generation counter;
\* stop() also sets stopped, and speak() also clears stopped.
C19_SpeakAndStopBumpGeneration ==
  [][/\ Speak => (tts'.generation > tts.generation /\ ~tts'.stopped)
     /\ Stop => (tts'.generation > tts.generation /\ tts'.stopped)]_vars

\* C8: within one session the word indices delivered through wordBoundary are
\* non-decreasing.
C8_BoundariesNonDecreasing ==
  \A i \in delivered("wb") :
     tts.out[i].prev # -1 => tts.out[i].idx >= tts.out[i].prev

\* C9: within one session no two consecutive wordBoundary callbacks carry the same
\* word index.
C9_BoundariesChangeOnly ==
  \A i \in delivered("wb") : tts.out[i].idx # tts.out[i].prev

(***************************************************************************)
(* The segmenter iterated over one word stream, as the scheduler does:     *)
(* the chunk after [start, start + length) starts at start + length.       *)
(***************************************************************************)
SegLengths ==
  {1, 2, MIN_CHUNK_WORDS, MIN_CHUNK_WORDS + 1, 17, 31, CHUNK_SIZE, CHUNK_SIZE + 1,
   MAX_CHUNK_WORDS, MAX_CHUNK_WORDS + 1, 96, MaxWords}

\* where the sentences of a stream end (1-based word positions)
SegEnds ==
  { {}, {1}, {14}, {15}, {16}, {15, 30}, {7, 20, 22, 27}, {7, 95}, {80}, {81}, 1..MaxWords }

SegStarts(n) == {0, 1, 16, n - 1} \cap (0..(n - 1))

InitSeg ==
  /\ seg \in UNION { { [words |-> WordsWith(n, E), fromIndex |-> i, cursor |-> i, lengths |-> <<>>,
                            offCursor |-> i, utterances |-> <<>>] :
                         i \in SegStarts(n) } : <<n, E>> \in SegLengths \X SegEnds }
  /\ tts = TtsIdle /\ fac = FacIdle /\ poll = PollIdle /\ off = OffIdle

\* nextStartIndex = chunk.startIndex + chunk.chunkLen, while startIndex < words.length
NextChunk ==
  /\ seg.cursor < Len(seg.words)
  /\ LET chunkLen == getChunkLength(seg.words, seg.cursor)
     IN seg' = [seg EXCEPT !.cursor = @ + chunkLen, !.lengths = Append(@, chunkLen)]
  /\ UNCHANGED <<tts, fac, poll, off>>

\* offline adapter: utterance.onend -> speakNext(startIndex + chunkLen), while
\* startIndex < words.length
NextUtterance ==
  /\ seg.offCursor < Len(seg.words)
  /\ LET chunkLen == getChunkLengthOffline(seg.words, seg.offCursor)
     IN seg' = [seg EXCEPT !.offCursor = @ + chunkLen, !.utterances = Append(@, chunkLen)]
  /\ UNCHANGED <<tts, fac, poll, off>>

NextSeg == NextChunk \/ NextUtterance

SpecSeg == InitSeg /\ [][NextSeg]_vars

RECURSIVE SumSeq(_)
SumSeq(q) == IF q = <<>> THEN 0 ELSE Head(q) + SumSeq(Tail(q))

\* C5: iterating getChunkLength from i < len(W) yields consecutive chunks, each of
\* length 1..MAX_CHUNK_WORDS, that never run past the end and whose lengths sum to
\* the words consumed (len(W) - i once the cursor is at the end); every chunk
\* advances the cursor, so there are at most len(W) - i of them: the iteration ends.
C5_ChunksPartitionTheStream ==
  /\ \A k \in 1..Len(seg.lengths) : seg.lengths[k] \in 1..MAX_CHUNK_WORDS
  /\ seg.cursor <= Len(seg.words)
  /\ SumSeq(seg.lengths) = seg.cursor - seg.fromIndex
  /\ Len(seg.lengths) <= Len(seg.words) - seg.fromIndex
  /\ (seg.cursor = Len(seg.words) => SumSeq(seg.lengths) = Len(seg.words) - seg.fromIndex)

\* the k-th chunk of the iteration: where it starts, how many words remained, the
\* words the scan looked at, and the 1-based positions of the sentence ends there
chunkStart(k) == seg.fromIndex + SumSeq(SubSeq(seg.lengths, 1, k - 1))
chunkRemaining(k) == Len(seg.words) - chunkStart(k)
chunkWindow(k) == Min(chunkRemaining(k), MAX_CHUNK_WORDS)
chunkEnds(k) == {p \in 1..chunkWindow(k) : isSentenceEnd(seg.words[chunkStart(k) + p])}
Chunks == 1..Len(seg.lengths)

\* the k-th utterance of the offline adapter
utteranceStart(k) == seg.fromIndex + SumSeq(SubSeq(seg.utterances, 1, k - 1))
utteranceRemaining(k) == Len(seg.words) - utteranceStart(k)
Utterances == 1..Len(seg.utterances)
\* the 1-based positions at which the offline adapter looks for a sentence end
breakSpan(k) ==
  {p \in (CHUNK_SIZE - BREAK_SPAN + 1)..CHUNK_SIZE : isSentenceEnd(seg.words[utteranceStart(k) + p])}

\* C18 as stated: for every words and fromIndex the offline adapter's chunk length
\* equals the length the buffered adapters' getChunkLength returns.
C18_OfflineChunksAsBuffered ==
  \A k \in Utterances :
     seg.utterances[k] = getChunkLength(seg.words, utteranceStart(k))

\* C18 amended: the offline adapter has its own policy. At most CHUNK_SIZE (40)
\* remaining words form one utterance; otherwise the utterance ends at the latest
\* sentence end among its words 26..40, or has exactly 40 words if there is none.
\* Its length is in 1..40, and equals the buffered adapters' length whenever at
\* most MIN_CHUNK_WORDS words remain.
C18_OfflinePolicy ==
  \A k \in Utterances :
     /\ seg.utterances[k] \in 1..CHUNK_SIZE
     /\ utteranceRemaining(k) <= CHUNK_SIZE => seg.utterances[k] = utteranceRemaining(k)
     /\ utteranceRemaining(k) > CHUNK_SIZE =>
           IF breakSpan(k) = {} THEN seg.utterances[k] = CHUNK_SIZE
           ELSE /\ seg.utterances[k] \in breakSpan(k)
                /\ \A p \in breakSpan(k) : p <= seg.utterances[k]
     /\ utteranceRemaining(k) <= MIN_CHUNK_WORDS =>
           seg.utterances[k] = getChunkLength(seg.words, utteranceStart(k))

\* the offline adapter cut an utterance at the later of two sentence ends among
\* its words 26..40, where the buffered adapters cut the chunk elsewhere
C18_Witness ==
  \E k \in Utterances :
     /\ utteranceRemaining(k) > CHUNK_SIZE
     /\ \E p \in breakSpan(k) : p < seg.utterances[k]
     /\ seg.utterances[k] # getChunkLength(seg.words, utteranceStart(k))

\* C15: when at most MIN_CHUNK_WORDS words remain from fromIndex, getChunkLength
\* returns exactly the number of remaining words, wherever the sentences end.
C15_ShortRemainderIsOneChunk ==
  \A k \in Chunks :
     chunkRemaining(k) <= MIN_CHUNK_WORDS => seg.lengths[k] = chunkRemaining(k)

\* a remainder of 2..MIN_CHUNK_WORDS words with a sentence end before its last
\* word was returned whole
C15_Witness ==
  \E k \in Chunks :
     /\ chunkRemaining(k) \in 2..MIN_CHUNK_WORDS
     /\ \E p \in chunkEnds(k) : p < chunkRemaining(k)
     /\ seg.lengths[k] = chunkRemaining(k)

\* C16: when more than MIN_CHUNK_WORDS words remain and none of the first
\* min(remaining, MAX_CHUNK_WORDS) is a sentence end, getChunkLength returns
\* min(remaining, MAX_CHUNK_WORDS).
C16_NoBoundaryGivesTheCap ==
  \A k \in Chunks :
     (chunkRemaining(k) > MIN_CHUNK_WORDS /\ chunkEnds(k) = {})
        => seg.lengths[k] = Min(chunkRemaining(k), MAX_CHUNK_WORDS)

\* more than MAX_CHUNK_WORDS words without a sentence end among the first
\* MAX_CHUNK_WORDS remained, and the chunk was cut at MAX_CHUNK_WORDS
C16_Witness ==
  \E k \in Chunks :
     /\ chunkRemaining(k) > MAX_CHUNK_WORDS
     /\ chunkEnds(k) = {}
     /\ seg.lengths[k] = MAX_CHUNK_WORDS

\* C17: when more than MIN_CHUNK_WORDS words remain, getChunkLength returns the
\* smallest sentence-end position p with MIN_CHUNK_WORDS <= p <= min(remaining,
\* MAX_CHUNK_WORDS) if there is one; otherwise, if the scan window has sentence
\* ends only below MIN_CHUNK_WORDS, it returns the largest of them.
C17_EarliestBoundaryPastMin ==
  \A k \in Chunks :
     chunkRemaining(k) > MIN_CHUNK_WORDS =>
        LET late == {p \in chunkEnds(k) : p >= MIN_CHUNK_WORDS}
        IN /\ late # {} =>
                /\ seg.lengths[k] \in late
                /\ \A p \in late : seg.lengths[k] <= p
           /\ (late = {} /\ chunkEnds(k) # {}) =>
                /\ seg.lengths[k] \in chunkEnds(k)
                /\ \A p \in chunkEnds(k) : p <= seg.lengths[k]

\* one iteration cut a chunk at the earliest of several boundaries at or past
\* MIN_CHUNK_WORDS, after a boundary below it, and cut another at a boundary
\* below MIN_CHUNK_WORDS
C17_Witness ==
  /\ \E k \in Chunks :
        /\ chunkRemaining(k) > MIN_CHUNK_WORDS
        /\ \E p, q \in chunkEnds(k) : p < MIN_CHUNK_WORDS /\ q > seg.lengths[k]
        /\ seg.lengths[k] >= MIN_CHUNK_WORDS
  /\ \E k \in Chunks :
        /\ chunkRemaining(k) > MIN_CHUNK_WORDS
        /\ seg.lengths[k] < MIN_CHUNK_WORDS

\* the iteration has ended after several chunks, one of them cut at the cap
C5_Witness ==
  /\ seg.cursor = Len(seg.words)
  /\ Len(seg.lengths) >= 2
  /\ \E k \in 1..Len(seg.lengths) : seg.lengths[k] = MAX_CHUNK_WORDS

(***************************************************************************)
(* The poll step of the position tracker on one timing table, frame after  *)
(* frame, with the clock the frames read never going back.                 *)
(***************************************************************************)
Example1 ==
  << [wordIndex |-> 5, audioOffsetMs |-> 0], [wordIndex |-> 6, audioOffsetMs |-> 400],
     [wordIndex |-> 7, audioOffsetMs |-> 900] >>

Example2 ==
  << [wordIndex |-> 0, audioOffsetMs |-> 0], [wordIndex |-> 1, audioOffsetMs |-> 150],
     [wordIndex |-> 2, audioOffsetMs |-> 310], [wordIndex |-> 3, audioOffsetMs |-> 500],
     [wordIndex |-> 4, audioOffsetMs |-> 640], [wordIndex |-> 5, audioOffsetMs |-> 800] >>

PollOffsets == {0, 400, 900}
PollClocks == {0, 399, 400, 560, 650, 900}

\* tables of words 5, 6, ... with their offsets in any order, and the two examples
PollTables ==
  {Example2} \cup
  UNION { { [i \in 1..k |-> [wordIndex |-> 5 + (i - 1), audioOffsetMs |-> o[i]]] :
              o \in [1..k -> PollOffsets] } : k \in 0..MaxTable }

InitPoll ==
  /\ poll \in {[PollIdle EXCEPT !.timings = tb] : tb \in PollTables}
  /\ tts = TtsIdle /\ seg = SegIdle /\ fac = FacIdle /\ off = OffIdle

\* one run of syncLoop's scan and report at clock c
PollFrame ==
  /\ \E c \in PollClocks :
       /\ c >= poll.clock
       /\ LET m == matchIdx(poll.timings, c)
              reports == pollReports(poll.timings, m, poll.lastReported)
          IN poll' = [poll EXCEPT
                        !.clock = c, !.m = m, !.before = poll.lastReported,
                        !.reported = IF reports THEN poll.timings[m].wordIndex ELSE -1,
                        !.lastReported = IF reports THEN poll.timings[m].wordIndex ELSE @,
                        !.polled = TRUE]
  /\ UNCHANGED <<tts, seg, fac, off>>

SpecPoll == InitPoll /\ [][PollFrame]_vars

(***************************************************************************)
(* Building the timing table of one chunk                                  *)
(***************************************************************************)
\* the chunk synthesized: three words of the stream from index TableStart, one of
\* them with characters that escapeXml lengthens
TableStart == 5
TableChunk == <<StopWord, QuotedStop, PlainWord>>

\* the length of the request text: the words, escaped or not, joined by spaces
textLen(offs, lastLen) == offs[Len(offs)] + lastLen

\* e.textOffset of a notification: before the text or at any character of the
\* escaped text; e.audioOffset in ticks of 100 ns
TableEvents ==
  [textOffset : {ssmlPrefixLen - 1} \cup
                {ssmlPrefixLen + c :
                   c \in 0..(textLen(wordOffsets(TableChunk),
                                     escapedWordLen(TableChunk[Len(TableChunk)])) - 1)},
   audioOffset : {0, 10000000}]

\* a boundary notification of the platform's speech synthesis for the utterance
\* of the chunk: event.name, and event.charIndex at any character of its text
BoundaryEvents ==
  [name : {"word", "sentence"},
   charIndex : 0..(textLen(utteranceOffsets(TableChunk), Len(TableChunk[Len(TableChunk)])) - 1)]

\* the platform notifies the boundaries of an utterance in the order it speaks them
inSpokenOrder(ev) == \A i \in 1..(Len(ev) - 1) : ev[i].charIndex <= ev[i + 1].charIndex

InitTable ==
  /\ \/ poll \in { [PollIdle EXCEPT !.backend = "azure", !.events = ev] :
                     ev \in { e \in UNION { [1..k -> TableEvents] : k \in 0..MaxTable } :
                                inTextOrder(e) } }
     \/ poll \in { [PollIdle EXCEPT !.backend = "kokoro", !.starts = st] :
                     st \in kokoroStarts(MaxTable + 1) }
     \/ poll \in { [PollIdle EXCEPT !.backend = "offline", !.events = ev] :
                     ev \in { e \in UNION { [1..k -> BoundaryEvents] : k \in 0..MaxTable } :
                                inSpokenOrder(e) } }
  /\ tts = TtsIdle /\ seg = SegIdle /\ fac = FacIdle /\ off = OffIdle

\* the table is complete when speakSsmlAsync reports the result
AzureBuildsTable ==
  /\ poll.backend = "azure" /\ ~poll.built
  /\ poll' = [poll EXCEPT
                !.timings = azureTimings(TableStart, TableChunk, ssmlPrefixLen, poll.events),
                !.built = TRUE]
  /\ UNCHANGED <<tts, seg, fac, off>>

\* the table is built from data.timestamps when the response arrives
KokoroBuildsTable ==
  /\ poll.backend = "kokoro" /\ ~poll.built
  /\ poll' = [poll EXCEPT
                !.timings = kokoroTimings(TableStart, Len(TableChunk), poll.starts),
                !.built = TRUE]
  /\ UNCHANGED <<tts, seg, fac, off>>

\* the offline adapter relays the boundary notifications of the utterance built
\* for the chunk (chunkStart is the utterance's startIndex while it is spoken)
OfflineRelays ==
  /\ poll.backend = "offline" /\ ~poll.built
  /\ poll' = [poll EXCEPT
                !.relayed = relayBoundaries(TableStart, utteranceOffsets(TableChunk),
                                            poll.events, <<>>),
                !.built = TRUE]
  /\ UNCHANGED <<tts, seg, fac, off>>

NextTable == AzureBuildsTable \/ KokoroBuildsTable \/ OfflineRelays

SpecTable == InitTable /\ [][NextTable]_vars

greatestStart(offs, c) ==
  CHOOSE k \in 0..(Len(offs) - 1) :
     offs[k + 1] <= c /\ \A j \in (k + 2)..Len(offs) : offs[j] > c

inChunk(index) == index \in TableStart..(TableStart + Len(TableChunk) - 1)

isWordEvent(e) == e.name = "word"

\* The notifications of one chunk, handled while the chunk is the one spoken: a
\* notification at a character offset c >= 0 of the request text is mapped to the
\* word of the chunk with the greatest recorded start offset <= c, and the index
\* startIndex + k lies within the chunk: for the cloud adapter (offset less the
\* markup prefix, offsets of the escaped words; one table entry for the word) and
\* for the offline adapter (one wordBoundary per notification).
offsetMapsToItsWord ==
  poll.built =>
    /\ poll.backend = "azure" =>
          LET offs == wordOffsets(TableChunk)
              heard == {i \in 1..Len(poll.events) : poll.events[i].textOffset >= ssmlPrefixLen}
              word(i) == TableStart + greatestStart(offs, poll.events[i].textOffset - ssmlPrefixLen)
          IN /\ \A i \in heard :
                   \E n \in 1..Len(poll.timings) : poll.timings[n].wordIndex = word(i)
             /\ \A n \in 1..Len(poll.timings) :
                   /\ inChunk(poll.timings[n].wordIndex)
                   /\ \E i \in heard :
                         /\ poll.timings[n].wordIndex = word(i)
                         /\ poll.timings[n].audioOffsetMs = poll.events[i].audioOffset \div 10000
    /\ poll.backend = "offline" =>
          LET offs == utteranceOffsets(TableChunk)
              heard == SelectSeq(poll.events, isWordEvent)
          IN /\ Len(poll.relayed) = Len(heard)
             /\ \A n \in 1..Len(heard) :
                   /\ poll.relayed[n] = TableStart + greatestStart(offs, heard[n].charIndex)
                   /\ inChunk(poll.relayed[n])

qualifying == {i \in 1..Len(poll.timings) : poll.timings[i].audioOffsetMs <= poll.clock}

\* C10: the poll step selects the entry with the greatest table position whose
\* audioOffsetMs <= c; what it reports is that entry's wordIndex (reported unless it
\* is the index reported last), and nothing is reported when no entry qualifies.
\* [(5,0),(6,400),(7,900)] at 650 gives 6; the six-entry example at 560 gives 3.
C10_PollSelectsLastQualifying ==
  poll.polled =>
    /\ (qualifying = {} => poll.m = 0 /\ poll.reported = -1)
    /\ (qualifying # {} =>
          /\ poll.m \in qualifying
          /\ \A i \in qualifying : i <= poll.m
          /\ poll.lastReported = poll.timings[poll.m].wordIndex
          /\ poll.reported = IF poll.timings[poll.m].wordIndex # poll.before
                             THEN poll.timings[poll.m].wordIndex ELSE -1)
    /\ (poll.timings = Example1 /\ poll.clock = 650 => poll.lastReported = 6)
    /\ (poll.timings = Example2 /\ poll.clock = 560 => poll.lastReported = 3)

\* the first example polled at 650 ms: word 6 is reported
C10_Witness ==
  poll.polled /\ poll.timings = Example1 /\ poll.clock = 650 /\ poll.reported = 6

(***************************************************************************)
(* Engine facade (useTTSEngine).  f is the facade's state together with    *)
(* what it sees of its three adapters: whether each is speaking.  A step   *)
(* is one handler, timer or adapter callback followed by the render it     *)
(* causes and the effects of that render.                                  *)
(*   f.calls   the calls made on adapters by the step just taken; a speak  *)
(*             notes the index a restart would resume from (expect) and the *)
(*             start of the session it replaces (from)                     *)
(*   f.sessionFrom, f.lastRelayed                                          *)
(*             the start index of the latest speak() issued and the index  *)
(*             of the latest wordBoundary relayed since (-1: none yet)     *)
(*   f.pre     what the facade was like before the step just taken         *)
(***************************************************************************)
\* isKokoro ? kokoro : isAzure ? azure : browser
activeProvider(f) ==
  IF f.provider = "kokoro" /\ f.ready["kokoro"] THEN "kokoro"
  ELSE IF f.provider = "azure" /\ f.ready["azure"] THEN "azure"
  ELSE "browser"

\* the index a restart is expected to resume from
resumePoint(f) == IF f.lastRelayed # -1 THEN f.lastRelayed ELSE f.sessionFrom

\* adapter.speak(words, fromIndex) of adapter p
adapterSpeak(f, p, fromIndex, restart) ==
  [f EXCEPT !.calls = Append(@, [op |-> "speak", on |-> p, idx |-> fromIndex,
                                 restart |-> restart, expect |-> resumePoint(f),
                                 from |-> f.sessionFrom]),
            !.speaking[p] = TRUE,
            !.sessionFrom = fromIndex, !.lastRelayed = -1]

\* adapter.stop() of adapter p
adapterStop(f, p) ==
  [f EXCEPT !.calls = Append(@, [op |-> "stop", on |-> p, idx |-> -1,
                                 restart |-> FALSE, expect |-> -1, from |-> -1]),
            !.speaking[p] = FALSE]

\* a relay that forgets to record the index
relayOnly(f, wordIndex) == [f EXCEPT !.lastRelayed = wordIndex]

trackingWordBoundary(f, wordIndex) ==
  [f EXCEPT !.lastWordIndex = wordIndex, !.lastRelayed = wordIndex]

\* the body of the hook on a render: speakingRef.current = speaking
render(f) == [f EXCEPT !.speakingRef = f.speaking[activeProvider(f)]]

\* the effect that restarts speech when the voice of the active adapter changed
voiceEffect(f) ==
  LET p == activeProvider(f)
      voiceChanged == f.voice[p] # f.prevVoice[p]
      f1 == [f EXCEPT !.prevVoice = f.voice]
  IN IF voiceChanged /\ f.speakingRef /\ f.lastWordsLen > 0
     THEN adapterSpeak(adapterStop(f1, p), p, f1.lastWordIndex, TRUE)
     ELSE f1

\* state changed: render, run the effects, render again for what they changed
rerender(f) == render(voiceEffect(render(f)))

\* f.silenced: the caller's last word was stop() or turning speech off, and no
\* speak() was issued since
facadeSpeak(f, wordsLen, fromIndex) ==
  adapterSpeak([f EXCEPT !.lastWordsLen = wordsLen, !.lastWordIndex = fromIndex,
                         !.silenced = FALSE],
               activeProvider(f), fromIndex, FALSE)

facadeStop(f) == [adapterStop(f, activeProvider(f)) EXCEPT !.silenced = TRUE]

\* a restart that leaves the timer set before to fire
keepsTimeout(f) == f

\* clearTimeout(restartTimerRef.current): the timer the reference names, which is
\* the one set last, no longer fires
clearTimeout(f) ==
  IF f.restartTimer # "none" THEN [f EXCEPT !.timers = SubSeq(@, 1, Len(@) - 1)] ELSE f

\* f.timers: the timers set and neither fired nor cleared, each with the adapter
\* its callback holds; f.burst: the restarts asked for since a timer last fired
\* (2 for more than one)
restartIfSpeaking(f) ==
  IF (f.speakingRef \/ f.restartTimer # "none") /\ f.lastWordsLen > 0
  THEN [clearTimeout(adapterStop(f, activeProvider(f))) EXCEPT
          !.timers = Append(@, activeProvider(f)),
          !.restartTimer = activeProvider(f),
          !.burst = Min(@ + 1, 2)]
  ELSE f

\* the callback of restart timer i, which holds the adapter active when it was set
restartTimerFires(f, i) ==
  adapterSpeak([f EXCEPT !.restartTimer = "none",
                         !.timers = SubSeq(@, 1, i - 1) \o SubSeq(@, i + 1, Len(@)),
                         !.burst = 0, !.settled = f.burst],
               f.timers[i], f.lastWordIndex, TRUE)

setRate(f) == restartIfSpeaking(f)

toggleEnabled(f) ==
  [(IF f.enabled THEN [adapterStop(f, activeProvider(f)) EXCEPT !.silenced = TRUE] ELSE f)
     EXCEPT !.enabled = ~f.enabled]

\* an updateProvider that leaves the current adapter speaking
updateProviderNoStop(f, newProvider, newVoice) ==
  [f EXCEPT !.provider = newProvider,
            !.ready = [p \in Configurable |-> @[p] \/ newVoice[p] # NoVoice],
            !.voice = [p \in Providers |->
                         IF p \in Configurable /\ newVoice[p] # NoVoice THEN newVoice[p] ELSE @[p]]]

\* newVoice[p] = NoVoice: no new configuration is given for adapter p
updateProvider(f, newProvider, newVoice) ==
  LET f1 == IF f.speakingRef THEN adapterStop(f, activeProvider(f)) ELSE f
  IN [f1 EXCEPT !.provider = newProvider,
                !.ready = [p \in Configurable |-> @[p] \/ newVoice[p] # NoVoice],
                !.voice = [p \in Providers |->
                             IF p \in Configurable /\ newVoice[p] # NoVoice THEN newVoice[p] ELSE @[p]]]

setVoice(f, voiceName) ==
  IF f.provider \in Configurable /\ f.ready[f.provider]
  THEN [f EXCEPT !.voice[f.provider] = voiceName]
  ELSE f

setSelectedBrowserVoice(f, voiceName) == [f EXCEPT !.voice["browser"] = voiceName]

\* getSelectedProvider(), getAzureConfig(), getKokoroConfig(): what storage holds
InitFac ==
  /\ fac \in { [FacIdle EXCEPT
                  !.provider = p, !.ready = r,
                  !.voice = [q \in Providers |-> IF q = "browser" \/ r[q] THEN "voiceA" ELSE NoVoice],
                  !.prevVoice = [q \in Providers |-> IF q = "browser" \/ r[q] THEN "voiceA" ELSE NoVoice]] :
                 p \in Providers, r \in [Configurable -> BOOLEAN] }
  /\ tts = TtsIdle /\ seg = SegIdle /\ poll = PollIdle /\ off = OffIdle

\* the facade as a handler finds it; a switch of provider also notes what it found
entering(op) ==
  [fac EXCEPT !.calls = <<>>, !.op = IF op = "updateProvider" THEN op ELSE "other",
              !.settled = 0,
              !.pre = IF op = "updateProvider"
                      THEN [active |-> activeProvider(fac), speakingRef |-> fac.speakingRef,
                            speaking |-> fac.speaking]
                      ELSE FacIdle.pre]

FacStep(f) == fac' = rerender(f) /\ UNCHANGED <<tts, seg, poll, off>>

FacadeSpeak ==
  \E fromIndex \in 0..MaxIndex : FacStep(facadeSpeak(entering("speak"), MaxIndex + 1, fromIndex))

FacadeStop == FacStep(facadeStop(entering("stop")))

SetRate == FacStep(setRate(entering("setRate")))

ToggleEnabled == FacStep(toggleEnabled(entering("toggleEnabled")))

UpdateProvider ==
  \E newProvider \in Providers, newVoice \in [Configurable -> {NoVoice} \cup Voices] :
     FacStep(updateProvider(entering("updateProvider"), newProvider, newVoice))

SetVoice ==
  \E voiceName \in Voices : FacStep(setVoice(entering("setVoice"), voiceName))

SetSelectedBrowserVoice ==
  \E voiceName \in Voices :
     FacStep(setSelectedBrowserVoice(entering("setSelectedBrowserVoice"), voiceName))

RestartTimerFires ==
  \E i \in 1..Len(fac.timers) : FacStep(restartTimerFires(entering("restartTimer"), i))

\* an adapter reports a word, once some adapter has been asked to speak
WordBoundary ==
  \E wordIndex \in 0..MaxIndex :
     /\ fac.lastWordsLen > 0
     /\ FacStep(trackingWordBoundary(entering("wordBoundary"), wordIndex))

\* an adapter stops speaking by itself: end of the words, or a failure
AdapterEnds ==
  \E p \in Providers :
     /\ fac.speaking[p]
     /\ FacStep([entering("adapterEnds") EXCEPT !.speaking[p] = FALSE])

NextFac ==
  \/ FacadeSpeak \/ FacadeStop \/ SetRate \/ ToggleEnabled \/ UpdateProvider
  \/ SetVoice \/ SetSelectedBrowserVoice \/ RestartTimerFires \/ WordBoundary \/ AdapterEnds

SpecFac == InitFac /\ [][NextFac]_vars

\* C32: at most one restart timer of the facade is pending, and it is the one the
\* reference names; a setRate while a restart is pending replaces the pending timer,
\* so that when the timer fires, after one or several changes, exactly one re-speak
\* is issued and no restart remains pending.
C32_OneRestartPending ==
  /\ Len(fac.timers) <= 1
  /\ fac.restartTimer # "none" <=> fac.timers # <<>>
  /\ fac.timers # <<>> => fac.timers[1] = fac.restartTimer
  /\ fac.settled > 0 =>
        /\ fac.timers = <<>>
        /\ Cardinality({i \in 1..Len(fac.calls) : fac.calls[i].op = "speak"}) = 1

\* the timer fires after several changes of rate and issues the one re-speak
C32_Witness ==
  /\ fac.settled = 2 /\ fac.timers = <<>>
  /\ \E i \in 1..Len(fac.calls) : fac.calls[i].op = "speak" /\ fac.calls[i].restart

\* C34: once the facade's stop() has returned, or toggleEnabled has turned speech
\* off, no restart is pending and no adapter is told to speak or is speaking until
\* the caller issues a new speak().
C34_StopCancelsTheRestart ==
  fac.silenced =>
     /\ fac.timers = <<>>
     /\ \A i \in 1..Len(fac.calls) : fac.calls[i].op # "speak"
     /\ \A p \in DOMAIN fac.speaking : ~fac.speaking[p]

\* C37: when the restart timer fires, the re-speak is issued on the adapter selected
\* at that moment, also when the provider was switched while the restart was pending.
C37_RestartOnTheSelectedAdapter ==
  fac.settled > 0 =>
     \A i \in 1..Len(fac.calls) :
        fac.calls[i].op = "speak" => fac.calls[i].on = activeProvider(fac)

restarts == {i \in 1..Len(fac.calls) : fac.calls[i].op = "speak" /\ fac.calls[i].restart}

\* C6: a restart caused by a change of voice or rate while speaking re-issues speak()
\* from the index of the last wordBoundary the facade relayed in the session, or
\* from the session's fromIndex when none was relayed yet.
C6_RestartResumesFromLastRelayed ==
  \A i \in restarts : fac.calls[i].idx = fac.calls[i].expect

\* a restart resumes from a word reported after the session's start
C6_Witness ==
  \E i \in restarts :
     fac.calls[i].idx = fac.calls[i].expect /\ fac.calls[i].idx > fac.calls[i].from

\* C20: after a change of rate or voice while speaking, the re-speak is issued only
\* when the settle delay has elapsed: no step of the facade both stops the adapter
\* and re-speaks.
C20_RestartOnlyAfterSettleDelay ==
  \A i \in restarts : \A j \in 1..Len(fac.calls) : fac.calls[j].op # "stop"

switched == fac.op = "updateProvider" /\ fac.pre.speakingRef

NoUtterance == [start |-> -1, len |-> 0, offs |-> <<>>, session |-> 0, st |-> "none",
                q |-> <<>>, at |-> 0]

\* onWordBoundary / onEnd called by code acting for utterance u
emitOff(o, kind, idx, u, c) ==
  [o EXCEPT
     !.out = Append(@, [kind |-> kind, idx |-> idx, start |-> u.start, len |-> u.len,
                        offs |-> u.offs, c |-> c, session |-> u.session,
                        cur |-> o.session, prev |-> o.lastWb[u.session]]),
     !.lastWb = IF kind = "wb" THEN [@ EXCEPT ![u.session] = idx] ELSE @]

\* buildUtterance: the state it leaves and the utterance it returns (NoUtterance
\* for null); session names the session whose code makes the call
buildUtterance(o, words, startIndex, session) ==
  IF startIndex >= Len(words) \/ o.stopped
  THEN [o |-> emitOff([o EXCEPT !.speaking = FALSE], "ended", startIndex,
                      [NoUtterance EXCEPT !.session = session], -1),
        utterance |-> NoUtterance]
  ELSE LET chunkLen == getChunkLengthOffline(words, startIndex)
           chunk == SubSeq(words, startIndex + 1, startIndex + chunkLen)
       IN [o |-> [o EXCEPT !.chunkStart = startIndex],
           utterance |-> [start |-> startIndex, len |-> chunkLen,
                          offs |-> utteranceOffsets(chunk), session |-> session,
                          st |-> "built", q |-> <<>>, at |-> 0]]

isSpoken(u) == u.st = "speaking"
isHeld(u) == u.st \in {"speaking", "queued"}

\* speechSynthesis.speak(utterance): spoken at once when nothing else is
synthSpeak(o, utterance) ==
  [o EXCEPT !.utts = Append(@, [utterance EXCEPT
               !.st = IF \E i \in 1..Len(o.utts) : isSpoken(o.utts[i])
                      THEN "queued" ELSE "speaking"])]

\* speechSynthesis.cancel(): the queue is emptied; each utterance removed is
\* notified later of its end, by an 'end' or an 'error' event (n)
synthCancel(o, n) ==
  [o EXCEPT !.utts = [i \in DOMAIN @ |->
                        IF isHeld(@[i]) THEN [@[i] EXCEPT !.st = "cancelled", !.q = <<n>>]
                        ELSE @[i]]]

speakNextChunk(o, startIndex, session) ==
  LET b == buildUtterance(o, o.allWords, startIndex, session)
  IN IF b.utterance # NoUtterance THEN synthSpeak(b.o, b.utterance) ELSE b.o

offlineSpeak(o, words, fromIndex, n) ==
  LET o1 == IF \E i \in 1..Len(o.utts) : isHeld(o.utts[i]) THEN synthCancel(o, n) ELSE o
      o2 == [o1 EXCEPT !.stopped = FALSE, !.allWords = words, !.session = @ + 1]
      b == buildUtterance(o2, words, fromIndex, o2.session)
  IN IF b.utterance # NoUtterance
     THEN synthSpeak([b.o EXCEPT !.speaking = TRUE], b.utterance)
     ELSE b.o

offlineStop(o, n) ==
  [synthCancel([o EXCEPT !.stopped = TRUE], n) EXCEPT !.speaking = FALSE]

\* utterance.onboundary of utterance u
onUtteranceBoundary(o, u, event) ==
  LET relayed == onboundary(o.chunkStart, u.offs, event, <<>>)
  IN IF relayed = <<>> THEN o ELSE emitOff(o, "wb", relayed[1], u, event.charIndex)

\* utterance.onend of utterance u
onend(o, u) ==
  IF o.stopped THEN [o EXCEPT !.speaking = FALSE]
  ELSE speakNextChunk(o, u.start + u.len, u.session)

\* utterance.onerror of utterance u
onUtteranceError(o, u) == [o EXCEPT !.speaking = FALSE]

\* the platform goes on with the utterance queued first when none is spoken
advance(o) ==
  LET queued == {i \in 1..Len(o.utts) : o.utts[i].st = "queued"}
  IN IF queued = {} \/ \E i \in 1..Len(o.utts) : isSpoken(o.utts[i]) THEN o
     ELSE [o EXCEPT !.utts[CHOOSE i \in queued : \A j \in queued : i <= j].st = "speaking"]

\* utterances that are over and notified are forgotten
forget(o) ==
  LET gone(u) == u.st = "done"
      sessions == {o.utts[i].session : i \in {j \in 1..Len(o.utts) : ~gone(o.utts[j])}}
                     \cup {o.session}
      keep(u) == ~gone(u)
  IN [o EXCEPT !.utts = SelectSeq(@, keep),
               !.lastWb = [g \in DOMAIN @ |-> IF g \in sessions THEN @[g] ELSE -1]]

\* the word streams and start indices the offline adapter is called with: 42
\* words with a sentence end at word 30 (utterances 0..29 and 30..41)
OfflineInputs ==
  { [words |-> WordsWith(42, {30}), fromIndex |-> i] : i \in {0, 41} }

\* event.charIndex of a notification for utterance u: at the start of its first,
\* second or last word, or one character further
BoundaryChars(u) ==
  {u.offs[k] + d : k \in {1, Min(2, u.len), u.len}, d \in {0, 1}}

InitOffline ==
  /\ off = OffIdle
  /\ tts = TtsIdle /\ seg = SegIdle /\ fac = FacIdle /\ poll = PollIdle

OffStep(o) ==
  LET o1 == forget(advance(o))
  IN Len(o1.utts) <= MaxUtt /\ off' = o1 /\ UNCHANGED <<tts, seg, fac, poll>>

offBegin == [off EXCEPT !.out = <<>>]

OfflineSpeak ==
  \E in \in OfflineInputs : \E n \in {"end", "error"} :
     /\ off.session < MaxSpeak
     /\ OffStep(offlineSpeak(offBegin, in.words, in.fromIndex, n))

OfflineStop ==
  \E n \in {"end", "error"} : ~off.stopped /\ OffStep(offlineStop(offBegin, n))

\* the platform notifies a boundary of an utterance: of the one it speaks, or of
\* one cancelled whose end it has not notified yet
Boundary ==
  \E i \in 1..Len(off.utts) :
     LET u == off.utts[i]
     IN /\ isSpoken(u) \/ (u.st = "cancelled" /\ u.q # <<>>)
        /\ \E name \in {"word", "sentence"} : \E c \in BoundaryChars(u) :
              /\ c >= u.at
              /\ OffStep(onUtteranceBoundary([offBegin EXCEPT !.utts[i].at = c], u,
                                             [name |-> name, charIndex |-> c]))

\* the platform has spoken an utterance to its end
UtteranceEnds ==
  \E i \in 1..Len(off.utts) :
     /\ isSpoken(off.utts[i])
     /\ OffStep(onend([offBegin EXCEPT !.utts[i].st = "done"], off.utts[i]))

\* the platform fails to speak an utterance
UtteranceFails ==
  \E i \in 1..Len(off.utts) :
     /\ isSpoken(off.utts[i])
     /\ OffStep(onUtteranceError([offBegin EXCEPT !.utts[i].st = "done"], off.utts[i]))

\* the end of a cancelled utterance is notified
CancelNotified ==
  \E i \in 1..Len(off.utts) :
     LET u == off.utts[i]
         o == [offBegin EXCEPT !.utts[i].st = "done", !.utts[i].q = <<>>]
     IN /\ u.st = "cancelled" /\ u.q # <<>>
        /\ OffStep(IF Head(u.q) = "end" THEN onend(o, u) ELSE onUtteranceError(o, u))

NextOffline ==
  \/ OfflineSpeak \/ OfflineStop \/ Boundary
  \/ UtteranceEnds \/ UtteranceFails \/ CancelNotified

SpecOffline == InitOffline /\ [][NextOffline]_vars

relayedWords == {i \in 1..Len(off.out) : off.out[i].kind = "wb"}

\* C29: a boundary notification at a character offset c >= 0 of a chunk's request
\* text is mapped to the word k of the chunk with the greatest recorded start
\* offset <= c, and the index delivered, startIndex + k, lies in
\* startIndex .. startIndex + length - 1: in the cloud adapter and in the offline
\* adapter.
C29_IndexOfTheNotifiedWord ==
  /\ offsetMapsToItsWord
  /\ \A i \in relayedWords :
        /\ off.out[i].idx = off.out[i].start + greatestStart(off.out[i].offs, off.out[i].c)
        /\ off.out[i].idx \in off.out[i].start..(off.out[i].start + off.out[i].len - 1)

\* C30: in the offline adapter no two consecutive wordBoundary callbacks of one
\* session carry the same word index, also when several boundary notifications of
\* the platform fall inside one word.
C30_OfflineBoundariesChangeOnly ==
  \A i \in relayedWords : off.out[i].idx # off.out[i].prev

\* C33: on a buffered adapter at most one position-polling loop is scheduled at any
\* instant, the loop scheduled belongs to the element audioRef holds, and none is
\* scheduled after stop(), after a superseding speak(), or for an element whose
\* playback has ended or failed.
C33_OnePollingLoop ==
  /\ Cardinality(tts.frames) <= 1
  /\ tts.stopped => tts.frames = {}
  /\ \A a \in tts.frames :
        /\ a = tts.audioRef
        /\ tts.audios[a].gen = tts.generation

\* C36: the completion callback of a chunk handed to playChunk runs at most once,
\* whatever ended, error and rejected-play() notifications its element delivers,
\* and no two elements of one session play the chunk of the same start index.
C36_CompletionRunsOnce ==
  /\ \A a \in 1..Len(tts.audios) : tts.audios[a].fin <= 1
  /\ \A a, b \in 1..Len(tts.audios) :
        (/\ a # b
         /\ tts.audios[a].st # "dead" /\ tts.audios[b].st # "dead"
         /\ tts.audios[a].gen = tts.audios[b].gen)
           => tts.audios[a].chunk.startIndex # tts.audios[b].chunk.startIndex

\* C38: a step in which a superseded session of a buffered adapter observes a
\* synthesis failure, an abort or a completion leaves the speaking flag true if it
\* was true.
C38_SupersededKeepsSpeaking ==
  [][(tts.speaking /\ tts'.late) => tts'.speaking]_vars

\* a superseded session has observed its result while the new session is speaking
C38_Witness == tts.late /\ tts.speaking /\ ~tts.stopped /\ tts.generation > 1

\* C39: in the local-server adapter the loading flag is never true while the
\* speaking flag is false.
C39_LoadingOnlyWhileSpeaking ==
  tts.adapter = "kokoro" => (tts.loading => tts.speaking)

\* C35: a termination notification (ended, error, rejected play()) of an element
\* other than the one audioRef holds leaves audioRef as it is, neither cleared nor
\* replaced; and when stop() returns no element is playing.
C35_HandlerClearsOnlyItsOwnElement ==
  [][/\ (/\ Notify
         /\ tts.audioRef # 0
         /\ tts'.audios[tts.audioRef].q = tts.audios[tts.audioRef].q)
           => tts'.audioRef = tts.audioRef
     /\ Stop => \A a \in 1..Len(tts'.audios) : tts'.audios[a].st # "playing"]_vars

\* every notification still owed to a cancelled utterance is owed to an utterance
\* of a superseded session, and stop() has not been called since
onlySupersededOwed ==
  /\ ~off.stopped
  /\ \A i \in 1..Len(off.utts) :
        (off.utts[i].st = "cancelled" /\ off.utts[i].q # <<>>)
           => off.utts[i].session < off.session

\* C31: in the offline adapter the end or error notification of an utterance that
\* a superseding speak() cancelled does nothing: it enqueues no utterance for the
\* old session, delivers no wordBoundary and no ended(), and leaves speaking true
\* while an utterance of the new session is held by the platform.
C31_CancelledEndIsNoOp ==
  [][(onlySupersededOwed /\ CancelNotified) =>
        /\ \A i \in 1..Len(off'.utts) :
              isHeld(off'.utts[i]) => off'.utts[i].session = off.session
        /\ \A i \in 1..Len(off'.out) : off'.out[i].kind \notin {"wb", "ended"}
        /\ (\E i \in 1..Len(off.utts) :
               isHeld(off.utts[i]) /\ off.utts[i].session = off.session)
             => (off.speaking => off'.speaking)]_vars

====
